---- MODULE Spec2Model ----
(***************************************************************************)
(* Model of the two scripts of the repository:                             *)
(*   create_files.py  - create (or append) num_files files whose sizes sum *)
(*                      to total_size in a folder, then optionally upload  *)
(*                      the folder to iRODS (imkdir, iput);                *)
(*   upload_files.py  - upload an existing folder to iRODS (imkdir, iput)  *)
(*                      and optionally replicate it (irepl), with a        *)
(*                      dry-run mode.                                      *)
(* A script is invoked up to MaxRuns times on the same filesystem.         *)
(*                                                                         *)
(* A path is the sequence of its "/"-separated components ("out/" is       *)
(* <<"out", "">>, "/zone/home" is <<"", "zone", "home">>, "" is <<>>).      *)
(* A file name inside a folder is a triple <<prefix, stem, extension>>.    *)
(* None and the empty string are both falsy in the scripts' tests; they    *)
(* are modelled by "" (strings) and <<>> (paths).                          *)
(***************************************************************************)
EXTENDS Integers, Sequences, FiniteSets, TLC

\* ---------------------------------------------------------------- bounds
MaxTotal == 3        \* largest --total-size tried
MaxFiles == 2        \* largest --num-files tried
MaxRuns  == 2        \* invocations of the script on the same filesystem

\* ------------------------------------------------------------- constants
IputResourceFlag == "-R"

\* --------------------------------------------------------------- helpers
RECURSIVE SumSeq(_)
SumSeq(s) == IF s = <<>> THEN 0 ELSE Head(s) + SumSeq(Tail(s))

Last(s) == s[Len(s)]
Front(s) == SubSeq(s, 1, Len(s) - 1)

Digit == <<"0", "1", "2", "3", "4", "5", "6", "7", "8", "9">>

\* str(n) of a non-negative integer: its decimal digits
RECURSIVE Str(_)
Str(n) == IF n < 10 THEN Digit[n + 1] ELSE Str(n \div 10) \o Digit[(n % 10) + 1]

\* datetime.now().strftime('%Y%m%d_%H%M%S') for the second t of a fixed minute
Strftime(t) == "20250101_1200" \o (IF t < 10 THEN "0" \o Str(t) ELSE Str(t))

\* f"file_{n}.txt"
FileName(n) == <<"file_", Str(n), ".txt">>

\* the test of the listing: f.startswith("file_") and f.endswith(".txt")
MatchesPattern(f) == f[1] = "file_" /\ f[3] = ".txt"

\* os.path.normpath: drop empty and "." components, resolve "..", keep a leading "/"
RECURSIVE NormComps(_, _, _)
NormComps(comps, acc, isAbs) ==
    IF comps = <<>> THEN acc
    ELSE LET c == Head(comps) IN
         IF c = "" \/ c = "." THEN NormComps(Tail(comps), acc, isAbs)
         ELSE IF c = ".."
              THEN IF acc # <<>> /\ Last(acc) # ".."
                   THEN NormComps(Tail(comps), Front(acc), isAbs)
                   ELSE IF isAbs THEN NormComps(Tail(comps), acc, isAbs)
                        ELSE NormComps(Tail(comps), Append(acc, c), isAbs)
              ELSE NormComps(Tail(comps), Append(acc, c), isAbs)

Normpath(p) ==
    LET isAbs == Len(p) >= 2 /\ p[1] = ""
        body  == NormComps(p, <<>>, isAbs)
    IN  IF isAbs THEN <<"">> \o body
        ELSE IF body = <<>> THEN <<".">> ELSE body

\* os.path.basename: what follows the last "/"
Basename(p) == IF p = <<>> THEN "" ELSE Last(p)

\* os.path.join(a, b) for a relative b: a separator is added unless a is
\* empty or already ends with one
Join(a, b) ==
    IF a = <<>> THEN <<b>>
    ELSE IF Last(a) = "" THEN Front(a) \o <<b>>
    ELSE Append(a, b)

\* the text of a path, as it appears in a command line
RECURSIVE PathStr(_)
PathStr(p) ==
    IF p = <<>> THEN ""
    ELSE IF Len(p) = 1 THEN p[1]
    ELSE p[1] \o "/" \o PathStr(Tail(p))

\* the directory a path names, as the operating system resolves it
Resolve(p) == Normpath(p)

\* ------------------------------------------------------------ input sets
OutFolder == <<"out">>
Timestamps == {0}
TotalSizeArgs == {0 - 1} \cup (0..MaxTotal)
NumFilesArgs == {0 - 1} \cup (0..MaxFiles)
FolderArgs == {<<>>, OutFolder}
IrodsPathArgs == {<<>>, <<"", "zone", "home">>}
ResourceArgs == {"", "resc1"}
UploadFolderArgs == {OutFolder, <<"out", "">>, <<"missing">>}
UploadIrodsPathArgs == {<<"", "zone", "home">>, <<"", "zone", "home", "">>}
ReplicateArgs == {"", "resc2"}
InitNames == {FileName(1), FileName(2), <<"file_", "x", ".txt">>, <<"notes", "", ".md">>}
PreSize == 7         \* size of the files present before the first run

NoArgs == [total_size |-> 0, num_files |-> 0, folder |-> <<>>, irods_path |-> <<>>,
           resource |-> "", replicate |-> "", dry_run |-> FALSE]

\* ------------------------------------------------------------------ state
VARIABLES
    prog,            \* which script is run: "create" or "upload"
    run,             \* number of invocations started
    pc,              \* position in the current invocation
    args,            \* parsed command line of the current invocation
    exitCode,        \* exit status of the current invocation (-1: running)
    dirs,            \* filesystem: the directories that exist (resolved paths)
    files,           \* filesystem: [dir, name] |-> size of each regular file
    folder_name,     \* create_data_folder_with_files: folder_name
    existing_files,  \* create_data_folder_with_files: existing_files
    next_index,      \* create_data_folder_with_files: next_index
    size_per_file,   \* create_data_folder_with_files: size_per_file
    remainder,       \* create_data_folder_with_files: remainder
    i,               \* create_data_folder_with_files: loop variable
    uploaded_folder_path, \* upload_files.py main: uploaded_folder_path
    before,          \* history: the filesystem when the invocation started
    written,         \* history: files fully written by the invocation, in order
    reads,           \* history: number of directory listings of the invocation
    failedAt,        \* history: loop index of the write that failed (-1: none)
    cmds,            \* history: external commands executed by the invocation
    failedCmd,       \* history: position in cmds of the command that failed (0: none)
    steps,           \* history: steps the invocation has announced
    prev             \* history: summary of an earlier invocation

vars == <<prog, run, pc, args, exitCode, dirs, files, folder_name, existing_files,
          next_index, size_per_file, remainder, i, uploaded_folder_path, before,
          written, reads, failedAt, cmds, failedCmd, steps, prev>>

fsVars == <<dirs, files>>
locals == <<folder_name, existing_files, next_index, size_per_file, remainder, i,
            uploaded_folder_path>>
history == <<before, written, reads, failedAt, cmds, failedCmd, steps>>

Key(d, n) == [dir |-> Resolve(d), name |-> n]

\* os.listdir
Listdir(d) == {k.name : k \in {q \in DOMAIN files : q.dir = Resolve(d)}}

\* os.path.isdir
IsDir(d) == Resolve(d) \in dirs

\* the file system after open(path, 'w') and a write of size bytes
WriteFileTo(fs, k, size) == [q \in DOMAIN fs \cup {k} |-> IF q = k THEN size ELSE fs[q]]

NoFiles == [k \in {} |-> PreSize]

NoPrev == [indices |-> {}, args |-> NoArgs, steps |-> <<>>, result |-> <<>>,
           exitCode |-> 0 - 1]

Init ==
    /\ prog \in {"create", "upload"}
    /\ run = 0
    /\ pc = "idle"
    /\ exitCode = 0 - 1
    /\ \E f \in FolderArgs, present \in BOOLEAN, names \in SUBSET InitNames :
          /\ prog = "upload" => f = OutFolder /\ names = InitNames
          /\ f = <<>> => ~present
          /\ ~present => names = {}
          /\ args = [NoArgs EXCEPT !.folder = f]
          /\ dirs = IF present THEN {Resolve(OutFolder)} ELSE {}
          /\ files = IF present
                     THEN [k \in {Key(OutFolder, n) : n \in names} |-> PreSize]
                     ELSE NoFiles
    /\ folder_name = <<>>
    /\ existing_files = {}
    /\ next_index = 0
    /\ size_per_file = 0
    /\ remainder = 0
    /\ i = 0
    /\ uploaded_folder_path = <<>>
    /\ before = [dirs |-> {}, files |-> NoFiles]
    /\ written = <<>>
    /\ reads = 0
    /\ failedAt = 0 - 1
    /\ cmds = <<>>
    /\ failedCmd = 0
    /\ steps = <<>>
    /\ prev = NoPrev

\* a new invocation starts: locals and history are those of a fresh process
StartRun ==
    /\ pc \in {"idle", "exit"}
    /\ run < MaxRuns
    /\ run' = run + 1
    /\ exitCode' = 0 - 1
    /\ before' = [dirs |-> dirs, files |-> files]
    /\ written' = <<>>
    /\ reads' = 0
    /\ failedAt' = 0 - 1
    /\ cmds' = <<>>
    /\ failedCmd' = 0
    /\ steps' = <<>>
    /\ folder_name' = <<>>
    /\ existing_files' = {}
    /\ next_index' = 0
    /\ size_per_file' = 0
    /\ remainder' = 0
    /\ i' = 0
    /\ uploaded_folder_path' = <<>>
    /\ UNCHANGED <<prog, dirs, files>>

\* the process ends with the given status
ExitWith(code) ==
    /\ pc' = "exit"
    /\ exitCode' = code

\* subprocess.run(cmd, check=True) returns: the command ran and exited with 0
RunOk(cmd) ==
    /\ cmds' = Append(cmds, cmd)
    /\ UNCHANGED failedCmd

\* subprocess.run(cmd, check=True) raises CalledProcessError: the command ran and
\* exited with a non-zero status
RunFails(cmd) ==
    /\ cmds' = Append(cmds, cmd)
    /\ failedCmd' = Len(cmds) + 1

\* ------------------------------------------------------- create_files.py
\* main, parse_args: a new invocation of the script. --irods-path and --resource
\* are drawn where main first reads them (CreateReturns). The invocations of one
\* behaviour are given the same --folder, drawn in Init: an invocation reads and
\* writes its own folder only, so invocations on different folders do not affect
\* each other.
Main ==
    /\ prog = "create"
    /\ StartRun
    /\ \E t \in TotalSizeArgs, n \in NumFilesArgs :
          args' = [NoArgs EXCEPT !.total_size = t, !.num_files = n,
                                 !.folder = args.folder]
    /\ pc' = "validate"
    /\ prev' = IF pc = "exit"
               THEN [NoPrev EXCEPT !.indices = {written[j].index : j \in 1..Len(written)}]
               ELSE prev

\* mutant: the check that every file gets at least one byte is missing
ValidationError_NoMinCheck(total_size_bytes, num_files) ==
    \/ total_size_bytes <= 0
    \/ num_files <= 0

\* create_data_folder_with_files: the three checks of the arguments
ValidationError(total_size_bytes, num_files) ==
    \/ total_size_bytes <= 0
    \/ num_files <= 0
    \/ num_files > total_size_bytes

\* mutant: the folder is created before the arguments are checked
Validate_AfterMakedirs ==
    /\ pc = "validate"
    /\ dirs' = dirs \cup {Resolve(IF args.folder = <<>> THEN <<"data_" \o Strftime(0)>>
                                  ELSE args.folder)}
    /\ IF ValidationError(args.total_size, args.num_files)
       THEN ExitWith(1)
       ELSE pc' = "makedirs" /\ UNCHANGED exitCode
    /\ UNCHANGED <<prog, run, args, files, locals, history, prev>>

Validate ==
    /\ pc = "validate"
    /\ IF ValidationError(args.total_size, args.num_files)
       THEN ExitWith(1)
       ELSE pc' = "makedirs" /\ UNCHANGED exitCode
    /\ UNCHANGED <<prog, run, args, fsVars, locals, history, prev>>

\* create_data_folder_with_files: default folder name and os.makedirs
MakeDirs ==
    /\ pc = "makedirs"
    /\ \E t \in Timestamps :
         LET name == IF args.folder = <<>> THEN <<"data_" \o Strftime(t)>>
                     ELSE args.folder
         IN  /\ folder_name' = name
             /\ dirs' = dirs \cup {Resolve(name)}
    /\ pc' = "listdir"
    /\ UNCHANGED <<prog, run, args, exitCode, files, existing_files, next_index,
                   size_per_file, remainder, i, uploaded_folder_path, history, prev>>

\* create_data_folder_with_files: size_per_file and remainder
SizePerFile(total_size_bytes, num_files) == total_size_bytes \div num_files

\* mutant: the remainder of the division is dropped
Remainder_Dropped(total_size_bytes, num_files) == 0

Remainder(total_size_bytes, num_files) == total_size_bytes % num_files

\* create_data_folder_with_files: count the existing files, split the total
ListExisting ==
    /\ pc = "listdir"
    /\ existing_files' = {f \in Listdir(folder_name) : MatchesPattern(f)}
    /\ next_index' = Cardinality(existing_files') + 1
    /\ size_per_file' = SizePerFile(args.total_size, args.num_files)
    /\ remainder' = Remainder(args.total_size, args.num_files)
    /\ i' = 0
    /\ reads' = reads + 1
    /\ pc' = "write"
    /\ UNCHANGED <<prog, run, args, exitCode, fsVars, folder_name, uploaded_folder_path,
                   before, written, failedAt, cmds, failedCmd, steps, prev>>

\* mutant: one file too many gets an extra byte
FileSize_OffByOne(per, rem, idx) == per + (IF idx <= rem THEN 1 ELSE 0)

\* create_data_folder_with_files: the size of the file of loop index idx
FileSize(per, rem, idx) == per + (IF idx < rem THEN 1 ELSE 0)

\* mutant: the loop index is not added to the starting index
FileIndex_NoOffset(start, idx) == start

\* create_data_folder_with_files: the index in the name of the file of loop index idx
FileIndex(start, idx) == start + idx

\* mutant: the folder is listed again, and the starting index recomputed, in
\* every iteration
WriteFile_Relist ==
    /\ pc = "write"
    /\ i < args.num_files
    /\ next_index' = Cardinality({f \in Listdir(folder_name) : MatchesPattern(f)}) + 1
    /\ reads' = reads + 1
    /\ LET file_size == FileSize(size_per_file, remainder, i)
           file_path == Key(folder_name, FileName(FileIndex(next_index', i)))
       IN  /\ files' = WriteFileTo(files, file_path, file_size)
           /\ written' = Append(written, [index |-> FileIndex(next_index', i),
                                          path |-> file_path, size |-> file_size])
    /\ i' = i + 1
    /\ UNCHANGED <<prog, run, pc, args, exitCode, dirs, folder_name, existing_files,
                   size_per_file, remainder, uploaded_folder_path, before,
                   failedAt, cmds, failedCmd, steps, prev>>

\* create_data_folder_with_files: one iteration of the loop, the write succeeds
WriteFile ==
    /\ pc = "write"
    /\ i < args.num_files
    /\ LET file_size == FileSize(size_per_file, remainder, i)
           file_path == Key(folder_name, FileName(FileIndex(next_index, i)))
       IN  /\ files' = WriteFileTo(files, file_path, file_size)
           /\ written' = Append(written, [index |-> FileIndex(next_index, i),
                                          path |-> file_path, size |-> file_size])
    /\ i' = i + 1
    /\ UNCHANGED <<prog, run, pc, args, exitCode, dirs, folder_name, existing_files,
                   next_index, size_per_file, remainder, uploaded_folder_path, before,
                   reads, failedAt, cmds, failedCmd, steps, prev>>

\* mutant: the error of a write is swallowed and the loop goes on
WriteFileFails_Continue ==
    /\ pc = "write"
    /\ i < args.num_files
    /\ failedAt' = i
    /\ i' = i + 1
    /\ UNCHANGED <<prog, run, pc, args, exitCode, fsVars, folder_name, existing_files,
                   next_index, size_per_file, remainder, uploaded_folder_path, before,
                   written, reads, cmds, failedCmd, steps, prev>>

\* create_data_folder_with_files: one iteration of the loop, open or write raises
\* OSError, which main catches to exit with status 1. The file is untouched when
\* open fails; when the write fails it has been created or truncated by open and
\* the buffered content has not reached it.
WriteFileFails ==
    /\ pc = "write"
    /\ i < args.num_files
    /\ LET file_size == FileSize(size_per_file, remainder, i)
           file_path == Key(folder_name, FileName(FileIndex(next_index, i)))
       IN  \/ UNCHANGED files
           \/ files' = WriteFileTo(files, file_path, 0)
    /\ failedAt' = i
    /\ ExitWith(1)
    /\ UNCHANGED <<prog, run, args, dirs, locals, before, written, reads, cmds,
                   failedCmd, steps, prev>>

\* main: create_data_folder_with_files returns; upload if --irods-path is given
CreateReturns ==
    /\ pc = "write"
    /\ i = args.num_files
    /\ \E ip \in IrodsPathArgs, r \in ResourceArgs :
         /\ args' = [args EXCEPT !.irods_path = ip, !.resource = r]
         /\ IF ip # <<>>
            THEN pc' = "ensure" /\ UNCHANGED exitCode
            ELSE ExitWith(0)
    /\ UNCHANGED <<prog, run, fsVars, locals, history, prev>>

\* ensure_irods_collection (both scripts): the imkdir command line
ImkdirCmd(path) == <<"imkdir", "-p", PathStr(path)>>

\* upload_to_irods, upload_folder_to_irods: the iput command line
IputCmd(local_folder, irods_path, resource) ==
    <<"iput", "-r">>
    \o (IF resource # "" THEN <<IputResourceFlag, resource>> ELSE <<>>)
    \o <<PathStr(local_folder), PathStr(irods_path)>>

\* replicate_to_resource: the irepl command line
IreplCmd(uploaded, second_resource) ==
    <<"irepl", "-r", "-R", second_resource, PathStr(uploaded)>>

\* create_files.py ensure_irods_collection: imkdir succeeds
EnsureIrodsCollection ==
    /\ prog = "create"
    /\ pc = "ensure"
    /\ steps' = Append(steps, "ensure_irods_collection")
    /\ RunOk(ImkdirCmd(args.irods_path))
    /\ pc' = "iput"
    /\ UNCHANGED <<prog, run, args, exitCode, fsVars, locals, before, written, reads,
                   failedAt, prev>>

\* mutant: the failure of imkdir is reported but the upload goes on
EnsureIrodsCollectionFails_Continue ==
    /\ prog = "create"
    /\ pc = "ensure"
    /\ steps' = Append(steps, "ensure_irods_collection")
    /\ RunFails(ImkdirCmd(args.irods_path))
    /\ pc' = "iput"
    /\ UNCHANGED <<prog, run, args, exitCode, fsVars, locals, before, written, reads,
                   failedAt, prev>>

\* create_files.py ensure_irods_collection: imkdir fails, sys.exit(1)
EnsureIrodsCollectionFails ==
    /\ prog = "create"
    /\ pc = "ensure"
    /\ steps' = Append(steps, "ensure_irods_collection")
    /\ RunFails(ImkdirCmd(args.irods_path))
    /\ ExitWith(1)
    /\ UNCHANGED <<prog, run, args, fsVars, locals, before, written, reads, failedAt, prev>>

\* upload_to_irods: iput succeeds, main returns
UploadToIrods ==
    /\ prog = "create"
    /\ pc = "iput"
    /\ steps' = Append(steps, "iput")
    /\ RunOk(IputCmd(folder_name, args.irods_path, args.resource))
    /\ ExitWith(0)
    /\ UNCHANGED <<prog, run, args, fsVars, locals, before, written, reads, failedAt, prev>>

\* upload_to_irods: iput fails, sys.exit(1)
UploadToIrodsFails ==
    /\ prog = "create"
    /\ pc = "iput"
    /\ steps' = Append(steps, "iput")
    /\ RunFails(IputCmd(folder_name, args.irods_path, args.resource))
    /\ ExitWith(1)
    /\ UNCHANGED <<prog, run, args, fsVars, locals, before, written, reads, failedAt, prev>>

\* ------------------------------------------------------- upload_files.py
\* main, parse_args: a new invocation of the script. The summary of a finished
\* dry run is kept for comparison with a later live run.
UpMain ==
    /\ prog = "upload"
    /\ StartRun
    /\ \E f \in UploadFolderArgs, ip \in UploadIrodsPathArgs, r \in ResourceArgs,
          rep \in ReplicateArgs, d \in BOOLEAN :
          args' = [NoArgs EXCEPT !.folder = f, !.irods_path = ip, !.resource = r,
                                 !.replicate = rep, !.dry_run = d]
    /\ pc' = "isdir"
    /\ prev' = IF pc = "exit" /\ args.dry_run
               THEN [NoPrev EXCEPT !.args = args, !.steps = steps,
                                   !.result = uploaded_folder_path, !.exitCode = exitCode]
               ELSE prev

\* upload_folder_to_irods: the folder must be a directory
UpCheckFolder ==
    /\ pc = "isdir"
    /\ IF ~IsDir(args.folder)
       THEN ExitWith(1)
       ELSE pc' = "up_ensure" /\ UNCHANGED exitCode
    /\ UNCHANGED <<prog, run, args, fsVars, locals, history, prev>>

\* upload_files.py ensure_irods_collection, dry run: nothing is executed
UpEnsureDryRun ==
    /\ pc = "up_ensure"
    /\ args.dry_run
    /\ steps' = Append(steps, "ensure_irods_collection")
    /\ pc' = "up_iput"
    /\ UNCHANGED <<prog, run, args, exitCode, fsVars, locals, before, written, reads,
                   failedAt, cmds, failedCmd, prev>>

\* upload_files.py ensure_irods_collection: imkdir succeeds
UpEnsure ==
    /\ pc = "up_ensure"
    /\ ~args.dry_run
    /\ steps' = Append(steps, "ensure_irods_collection")
    /\ RunOk(ImkdirCmd(args.irods_path))
    /\ pc' = "up_iput"
    /\ UNCHANGED <<prog, run, args, exitCode, fsVars, locals, before, written, reads,
                   failedAt, prev>>

\* upload_files.py ensure_irods_collection: imkdir fails, sys.exit(1)
UpEnsureFails ==
    /\ pc = "up_ensure"
    /\ ~args.dry_run
    /\ steps' = Append(steps, "ensure_irods_collection")
    /\ RunFails(ImkdirCmd(args.irods_path))
    /\ ExitWith(1)
    /\ UNCHANGED <<prog, run, args, fsVars, locals, before, written, reads, failedAt, prev>>

\* upload_folder_to_irods: the remote path of the uploaded folder
UploadedFolderPath(local_folder, irods_path) ==
    Join(irods_path, Basename(Normpath(local_folder)))

\* upload_folder_to_irods returns to main (line 103)
UpReturn ==
    /\ uploaded_folder_path' = UploadedFolderPath(args.folder, args.irods_path)
    /\ pc' = "replicate"
    /\ UNCHANGED <<prog, run, args, exitCode, fsVars, folder_name, existing_files,
                   next_index, size_per_file, remainder, i, before, written, reads,
                   failedAt, prev>>

\* mutant: the dry run executes iput
UploadFolderDryRun_Executes ==
    /\ pc = "up_iput"
    /\ args.dry_run
    /\ steps' = Append(steps, "iput")
    /\ RunOk(IputCmd(args.folder, args.irods_path, args.resource))
    /\ UpReturn

\* upload_folder_to_irods, dry run: the upload is skipped
UploadFolderDryRun ==
    /\ pc = "up_iput"
    /\ args.dry_run
    /\ steps' = Append(steps, "iput")
    /\ UNCHANGED <<cmds, failedCmd>>
    /\ UpReturn

\* upload_folder_to_irods: iput succeeds
UploadFolder ==
    /\ pc = "up_iput"
    /\ ~args.dry_run
    /\ steps' = Append(steps, "iput")
    /\ RunOk(IputCmd(args.folder, args.irods_path, args.resource))
    /\ UpReturn

\* upload_folder_to_irods: iput fails, sys.exit(1)
UploadFolderFails ==
    /\ pc = "up_iput"
    /\ ~args.dry_run
    /\ steps' = Append(steps, "iput")
    /\ RunFails(IputCmd(args.folder, args.irods_path, args.resource))
    /\ ExitWith(1)
    /\ UNCHANGED <<prog, run, args, fsVars, locals, before, written, reads, failedAt, prev>>

\* main: no --replicate, the script ends
UpNoReplicate ==
    /\ pc = "replicate"
    /\ args.replicate = ""
    /\ ExitWith(0)
    /\ UNCHANGED <<prog, run, args, fsVars, locals, history, prev>>

\* replicate_to_resource, dry run: the replication is skipped
ReplicateDryRun ==
    /\ pc = "replicate"
    /\ args.replicate # ""
    /\ args.dry_run
    /\ steps' = Append(steps, "irepl")
    /\ ExitWith(0)
    /\ UNCHANGED <<prog, run, args, fsVars, locals, before, written, reads, failedAt,
                   cmds, failedCmd, prev>>

\* replicate_to_resource: irepl succeeds
ReplicateToResource ==
    /\ pc = "replicate"
    /\ args.replicate # ""
    /\ ~args.dry_run
    /\ steps' = Append(steps, "irepl")
    /\ RunOk(IreplCmd(uploaded_folder_path, args.replicate))
    /\ ExitWith(0)
    /\ UNCHANGED <<prog, run, args, fsVars, locals, before, written, reads, failedAt, prev>>

\* replicate_to_resource: irepl fails, sys.exit(1)
ReplicateFails ==
    /\ pc = "replicate"
    /\ args.replicate # ""
    /\ ~args.dry_run
    /\ steps' = Append(steps, "irepl")
    /\ RunFails(IreplCmd(uploaded_folder_path, args.replicate))
    /\ ExitWith(1)
    /\ UNCHANGED <<prog, run, args, fsVars, locals, before, written, reads, failedAt, prev>>

Next ==
    \/ Main
    \/ Validate
    \/ MakeDirs
    \/ ListExisting
    \/ WriteFile
    \/ WriteFileFails
    \/ CreateReturns
    \/ EnsureIrodsCollection
    \/ EnsureIrodsCollectionFails
    \/ UploadToIrods
    \/ UploadToIrodsFails
    \/ UpMain
    \/ UpCheckFolder
    \/ UpEnsureDryRun
    \/ UpEnsure
    \/ UpEnsureFails
    \/ UploadFolderDryRun
    \/ UploadFolder
    \/ UploadFolderFails
    \/ UpNoReplicate
    \/ ReplicateDryRun
    \/ ReplicateToResource
    \/ ReplicateFails

Spec == Init /\ [][Next]_vars

\* ------------------------------------------------------------ properties
IsPrefix(s, t) == Len(s) <= Len(t) /\ SubSeq(t, 1, Len(s)) = s

CmdNames == [j \in 1..Len(cmds) |-> cmds[j][1]]
WrittenSizes == [j \in 1..Len(written) |-> written[j].size]
WrittenPaths == {written[j].path : j \in 1..Len(written)}
WrittenIndices == {written[j].index : j \in 1..Len(written)}

\* the largest index a file name can carry in the model
MaxIndex == Cardinality(InitNames) + MaxRuns * MaxFiles

\* the indices k of the files file_k.txt of folder d in the file system fs
IndicesPresent(fs, d) == {k \in 1..MaxIndex : Key(d, FileName(k)) \in DOMAIN fs}

\* the folder the current invocation of create_files.py works on
TargetFolder == IF args.folder = <<>> THEN <<"data_" \o Strftime(0)>> ELSE args.folder

\* create_data_folder_with_files has returned normally in the current invocation
CreateReturned ==
    /\ prog = "create"
    /\ pc \in {"ensure", "iput", "exit"}
    /\ reads = 1
    /\ failedAt = 0 - 1

\* C1 - exact sum: after a successful call of create_data_folder_with_files the
\* sizes of the files it wrote, as planned and as found on disk, sum to total_size.
C1_ExactSum ==
    CreateReturned =>
        /\ SumSeq(WrittenSizes) = args.total_size
        /\ \A j \in 1..Len(written) :
              /\ written[j].path \in DOMAIN files
              /\ files[written[j].path] = written[j].size

C1_Witness ==
    /\ CreateReturned
    /\ pc = "exit"
    /\ args.num_files >= 2
    /\ args.total_size % args.num_files # 0

\* C2 - idempotent append (as claimed): an invocation never writes to a path that
\* existed when it started, and every index it uses is greater than every index
\* already present and than every index used by the previous batch.
C2_IdempotentAppend ==
    prog = "create" =>
        /\ WrittenPaths \cap DOMAIN before.files = {}
        /\ \A k \in WrittenIndices :
              /\ \A e \in IndicesPresent(before.files, TargetFolder) : k > e
              /\ \A e \in prev.indices : k > e

\* C3 - minimum size: every file written by create_data_folder_with_files has at
\* least one byte.
C3_MinimumSize ==
    prog = "create" =>
        \A j \in 1..Len(written) :
            /\ written[j].size >= 1
            /\ files[written[j].path] >= 1

C3_Witness ==
    /\ CreateReturned
    /\ args.num_files = args.total_size
    /\ Len(written) >= 2

\* C4 - count: a successful call writes exactly num_files files, at num_files
\* pairwise distinct paths.
C4_Count ==
    CreateReturned =>
        /\ Len(written) = args.num_files
        /\ Cardinality(WrittenPaths) = args.num_files

C4_Witness ==
    /\ CreateReturned
    /\ Len(written) = MaxFiles
    /\ MaxFiles >= 2

\* C5 - input validation: with total <= 0, count <= 0 or count > total the call
\* fails (exit status 1) and the file system is as it was when the invocation
\* started; with any other arguments validation passes and the folder is listed.
C5_InvalidArgs ==
    \/ args.total_size <= 0
    \/ args.num_files <= 0
    \/ args.num_files > args.total_size

C5_Validation ==
    (prog = "create" /\ run > 0 /\ pc # "validate") =>
        /\ C5_InvalidArgs =>
              /\ pc = "exit"
              /\ exitCode = 1
              /\ dirs = before.dirs
              /\ files = before.files
              /\ reads = 0
              /\ written = <<>>
        /\ ~C5_InvalidArgs =>
              /\ pc = "exit" => reads = 1
              /\ pc # "makedirs" => Resolve(TargetFolder) \in dirs

C5_Witness ==
    /\ prog = "create"
    /\ pc = "exit"
    /\ args.total_size > 0
    /\ args.num_files > args.total_size
    /\ before.dirs = {}

\* C6 - order of the remote steps: the commands executed are, in this order,
\* imkdir, iput and (upload_files.py with --replicate only) irepl; create_files.py
\* executes none before all files are written; a command that fails is the last
\* one executed and the process has exited with status 1.
C6_RemoteOrder ==
    /\ IsPrefix(CmdNames, <<"imkdir", "iput", "irepl">>)
    /\ Len(cmds) = 3 => prog = "upload" /\ args.replicate # ""
    /\ (prog = "create" /\ cmds # <<>>) =>
          /\ failedAt = 0 - 1
          /\ i = args.num_files
          /\ Len(written) = args.num_files
    /\ failedCmd # 0 =>
          /\ failedCmd = Len(cmds)
          /\ pc = "exit"
          /\ exitCode = 1
    /\ (pc = "exit" /\ exitCode = 0) => failedCmd = 0

C6_Witness ==
    /\ pc = "exit"
    /\ exitCode = 1
    /\ failedCmd = 1
    /\ Len(cmds) = 1
    /\ Len(written) >= 1

\* C7 (as claimed) - the first num_files - 1 files get total div num_files bytes
\* and the last one gets the remainder in addition.
C7_RemainderOnLast ==
    CreateReturned =>
        LET per == args.total_size \div args.num_files
            rem == args.total_size - per * args.num_files
        IN  \A j \in 1..Len(written) :
               written[j].size = IF j < Len(written) THEN per ELSE per + rem

\* C7 (amended) - the remainder is spread one byte each over the first files: the
\* first (total mod num_files) files written get total div num_files + 1 bytes and
\* the others total div num_files bytes.
C7_RemainderOnFirst ==
    CreateReturned =>
        LET per == args.total_size \div args.num_files
            rem == args.total_size - per * args.num_files
        IN  /\ Len(written) = args.num_files
            /\ \A j \in 1..Len(written) :
                  written[j].size = IF j <= rem THEN per + 1 ELSE per

C7_Witness ==
    /\ CreateReturned
    /\ Len(written) >= 2
    /\ written[1].size > written[Len(written)].size

\* C8 - fail fast, no rollback: when the write of a file fails the process has
\* exited with status 1, no command was executed, the files written before it
\* are on disk with their sizes, the failed file was not written again, and the
\* files after it in the plan are as they were when the invocation started.
C8_FailFast ==
    (prog = "create" /\ failedAt >= 0) =>
        /\ pc = "exit"
        /\ exitCode = 1
        /\ cmds = <<>>
        /\ steps = <<>>
        /\ Len(written) = failedAt
        /\ \A j \in 1..Len(written) :
              /\ written[j].index = next_index + j - 1
              /\ files[written[j].path] = written[j].size
        /\ \A idx \in (failedAt + 1)..(args.num_files - 1) :
              LET k == Key(folder_name, FileName(next_index + idx))
              IN  /\ k \in DOMAIN files <=> k \in DOMAIN before.files
                  /\ k \in DOMAIN files => files[k] = before.files[k]

C8_Witness ==
    /\ prog = "create"
    /\ failedAt = 0
    /\ args.num_files >= 2
    /\ pc = "exit"
    /\ Key(folder_name, FileName(next_index)) \in DOMAIN files

\* C9 - index assignment: the folder is listed at most once per invocation and
\* before the first write; the starting index is one more than the number of
\* matching names the folder held when the invocation started (1 for an empty
\* folder); the k-th file written carries the index start + k - 1.
C9_IndexAssignment ==
    (prog = "create" /\ run > 0) =>
        LET old   == {q.name : q \in {k \in DOMAIN before.files :
                                          k.dir = Resolve(TargetFolder)}}
            start == Cardinality({f \in old : MatchesPattern(f)}) + 1
        IN  /\ reads <= 1
            /\ written # <<>> => reads = 1
            /\ reads = 1 => next_index = start
            /\ old = {} => start = 1
            /\ \A j \in 1..Len(written) : written[j].index = start + j - 1

C9_Witness ==
    /\ prog = "create"
    /\ pc = "exit"
    /\ Len(written) = 2
    /\ next_index > 1
    /\ run = 1

\* C10 - dry run of upload_files.py: a dry run executes no command; a live run
\* whose commands all succeed announces the same steps, returns the same remote
\* folder path and ends with the same status as the dry run with the same other
\* arguments.
C10_DryRun ==
    prog = "upload" =>
        /\ args.dry_run => cmds = <<>>
        /\ (/\ pc = "exit"
            /\ ~args.dry_run
            /\ failedCmd = 0
            /\ prev.exitCode # 0 - 1
            /\ prev.args = [args EXCEPT !.dry_run = TRUE]) =>
               /\ steps = prev.steps
               /\ uploaded_folder_path = prev.result
               /\ exitCode = prev.exitCode
               /\ Len(cmds) = Len(steps)

C10_Witness ==
    /\ prog = "upload"
    /\ pc = "exit"
    /\ ~args.dry_run
    /\ failedCmd = 0
    /\ Len(cmds) = 3
    /\ prev.exitCode = 0
    /\ prev.args = [args EXCEPT !.dry_run = TRUE]
    /\ prev.steps = <<"ensure_irods_collection", "iput", "irepl">>
    /\ uploaded_folder_path = <<"", "zone", "home", "out">>
====
